---- MODULE Spec2Model ----
(***************************************************************************)
(* Entitlement engine of the AI reply generator: the daily usage counter   *)
(* kept in a shop metafield (utils/usage.server), the subscription         *)
(* resolver and initiator (utils/billing.server) and the loader / action   *)
(* of the app index route that compose them.                               *)
(*                                                                         *)
(* Every await of the TypeScript code is one step of a request, so the     *)
(* requests of one shop interleave at exactly the places where the event   *)
(* loop lets them interleave.                                              *)
(***************************************************************************)
EXTENDS Integers, Sequences, FiniteSets, TLC

(***************************************************************************)
(* Program constants.                                                      *)
(***************************************************************************)
DAILY_LIMIT == 100
DefaultTrialDays == 14
PRODUCT_NAME == "pro_monthly"

(***************************************************************************)
(* Bounds of the model.                                                    *)
(***************************************************************************)
\* clock ticks per calendar day (the clock is finer than the date)
TicksPerDay == 2
\* the clock starts at StartNow and stops ticking at StartNow + MaxTicks
MaxTicks == 1
\* number of requests one behaviour of Spec starts
MaxRequests == 2
\* calls made after the limit has been reached in a sequential run
MaxExtra == 3
\* age in days of the oldest subscription the resolver is tried on
MaxAgeDays == 21

\* the clock starts on the last tick of day 1
StartNow == 2 * TicksPerDay - 1
Reqs == {1, 2}

None == <<>>
Some(x) == <<x>>
IsSome(o) == o # <<>>
Get(o) == o[1]

(***************************************************************************)
(* JavaScript values as far as the counter needs them.                     *)
(*   [t |-> "undef"], [t |-> "null"], [t |-> "nan"],                       *)
(*   [t |-> "num", n |-> Int], [t |-> "str", s |-> Seq(0..9)] (digits),    *)
(*   [t |-> "obj", count |-> value, date |-> value]                        *)
(* A date string YYYY-MM-DD is [t |-> "date", d |-> day number].           *)
(***************************************************************************)
JSUndef == [t |-> "undef"]
JSNull == [t |-> "null"]
JSNaN == [t |-> "nan"]
JSNum(n) == [t |-> "num", n |-> n]
JSStr(s) == [t |-> "str", s |-> s]
JSDate(d) == [t |-> "date", d |-> d]
JSObj(c, d) == [t |-> "obj", count |-> c, date |-> d]

RECURSIVE DigitsValue(_)
DigitsValue(s) ==
  IF Len(s) = 0 THEN 0
  ELSE 10 * DigitsValue(SubSeq(s, 1, Len(s) - 1)) + s[Len(s)]

\* ToNumber of the abstract relational comparison; NaN is JSNaN
ToNumber(v) ==
  CASE v.t = "num" -> v
    [] v.t = "null" -> JSNum(0)
    [] v.t = "str" -> JSNum(DigitsValue(v.s))
    [] OTHER -> JSNaN

\* a >= n for a number n: false as soon as the left side is NaN
JSGreaterEq(v, n) ==
  LET x == ToNumber(v) IN x.t = "num" /\ x.n >= n

\* v + 1: string concatenation for a string, numeric addition otherwise
JSPlusOne(v) ==
  CASE v.t = "str" -> JSStr(v.s \o <<1>>)
    [] v.t = "num" -> JSNum(v.n + 1)
    [] v.t = "null" -> JSNum(1)
    [] OTHER -> JSNaN

\* !v is false
Truthy(v) ==
  CASE v.t = "undef" -> FALSE
    [] v.t = "null" -> FALSE
    [] v.t = "nan" -> FALSE
    [] v.t = "num" -> v.n # 0
    [] v.t = "str" -> Len(v.s) > 0
    [] OTHER -> TRUE

\* property access v.count / v.date on a non-null value
CountOf(v) == IF v.t = "obj" THEN v.count ELSE JSUndef
DateOf(v) == IF v.t = "obj" THEN v.date ELSE JSUndef

(***************************************************************************)
(* The metafield of the shop: NoMetafield, or a metafield whose value is   *)
(* a text.  A text is "" ("empty"), a text JSON.parse rejects ("garbage")  *)
(* or the JSON text of a value ("json").                                   *)
(***************************************************************************)
NoMetafield == [k |-> "absent"]
EmptyText == [k |-> "empty"]
GarbageText == [k |-> "garbage"]
JsonText(v) == [k |-> "json", v |-> v]

\* JSON.stringify of a DailyUsage: NaN is written as null, an undefined
\* property is left out
StringifyValue(v) == IF v.t \in {"nan"} THEN JSNull ELSE v
JSONstringify(u) == JsonText(JSObj(StringifyValue(u.count), StringifyValue(u.date)))

\* JSON.parse of a JSON text (a property that is left out reads as undefined)
JSONparse(text) == text.v

\* getDailyUsage on a response that arrived: null, or the parsed value
getDailyUsage(mf) ==
  IF mf.k \in {"absent", "empty"} THEN JSNull
  ELSE IF mf.k = "garbage" THEN JSNull
  ELSE JSONparse(mf)

\* getTodayDateString: the UTC date of the clock
getTodayDateString(t) == JSDate(t \div TicksPerDay)

\* the test of both functions: no usage, or usage of another day
NoUsageToday(currentUsage, today) ==
  ~Truthy(currentUsage) \/ DateOf(currentUsage) # today

\* variant: the count of the record whatever its date
getCurrentUsageCount_anyDay(mf, today) ==
  LET currentUsage == getDailyUsage(mf)
  IN IF ~Truthy(currentUsage) THEN JSNum(0) ELSE CountOf(currentUsage)

\* variant: the date test with === in place of !==
getCurrentUsageCount_inverted(mf, today) ==
  LET currentUsage == getDailyUsage(mf)
  IN IF ~Truthy(currentUsage) \/ DateOf(currentUsage) = today
     THEN JSNum(0) ELSE CountOf(currentUsage)

\* getCurrentUsageCount once the read has returned
getCurrentUsageCount(mf, today) ==
  LET currentUsage == getDailyUsage(mf)
  IN IF NoUsageToday(currentUsage, today) THEN JSNum(0) ELSE CountOf(currentUsage)

\* variant: the limit test with > in place of >=
checkAndIncrementUsage_gt(mf, today) ==
  LET currentUsage == getDailyUsage(mf)
  IN IF NoUsageToday(currentUsage, today)
     THEN [write |-> Some([count |-> JSNum(1), date |-> today]),
           result |-> [allowed |-> TRUE, currentCount |-> JSNum(1)]]
     ELSE IF JSGreaterEq(CountOf(currentUsage), DAILY_LIMIT + 1)
     THEN [write |-> None,
           result |-> [allowed |-> FALSE, currentCount |-> CountOf(currentUsage)]]
     ELSE LET updatedUsage == [count |-> JSPlusOne(CountOf(currentUsage)), date |-> today]
          IN [write |-> Some(updatedUsage),
              result |-> [allowed |-> TRUE, currentCount |-> updatedUsage.count]]

\* variant: the limit test before the date test
checkAndIncrementUsage_limitFirst(mf, today) ==
  LET currentUsage == getDailyUsage(mf)
  IN IF Truthy(currentUsage) /\ JSGreaterEq(CountOf(currentUsage), DAILY_LIMIT)
     THEN [write |-> None,
           result |-> [allowed |-> FALSE, currentCount |-> CountOf(currentUsage)]]
     ELSE IF NoUsageToday(currentUsage, today)
     THEN [write |-> Some([count |-> JSNum(1), date |-> today]),
           result |-> [allowed |-> TRUE, currentCount |-> JSNum(1)]]
     ELSE LET updatedUsage == [count |-> JSPlusOne(CountOf(currentUsage)), date |-> today]
          IN [write |-> Some(updatedUsage),
              result |-> [allowed |-> TRUE, currentCount |-> updatedUsage.count]]

\* variant: a denied call stores the record it read
checkAndIncrementUsage_denyWrites(mf, today) ==
  LET currentUsage == getDailyUsage(mf)
  IN IF NoUsageToday(currentUsage, today)
     THEN [write |-> Some([count |-> JSNum(1), date |-> today]),
           result |-> [allowed |-> TRUE, currentCount |-> JSNum(1)]]
     ELSE IF JSGreaterEq(CountOf(currentUsage), DAILY_LIMIT)
     THEN [write |-> Some([count |-> CountOf(currentUsage), date |-> today]),
           result |-> [allowed |-> FALSE, currentCount |-> CountOf(currentUsage)]]
     ELSE LET updatedUsage == [count |-> JSPlusOne(CountOf(currentUsage)), date |-> today]
          IN [write |-> Some(updatedUsage),
              result |-> [allowed |-> TRUE, currentCount |-> updatedUsage.count]]

\* checkAndIncrementUsage once the read has returned: the decision it takes
\* before any write.  write = None: return result at once;
\* write = Some(usage): saveDailyUsage(usage), then return result.
checkAndIncrementUsage(mf, today) ==
  LET currentUsage == getDailyUsage(mf)
  IN IF NoUsageToday(currentUsage, today)
     THEN [write |-> Some([count |-> JSNum(1), date |-> today]),
           result |-> [allowed |-> TRUE, currentCount |-> JSNum(1)]]
     ELSE IF JSGreaterEq(CountOf(currentUsage), DAILY_LIMIT)
     THEN [write |-> None,
           result |-> [allowed |-> FALSE, currentCount |-> CountOf(currentUsage)]]
     ELSE LET updatedUsage == [count |-> JSPlusOne(CountOf(currentUsage)), date |-> today]
          IN [write |-> Some(updatedUsage),
              result |-> [allowed |-> TRUE, currentCount |-> updatedUsage.count]]

(***************************************************************************)
(* Billing: a subscription of the provider is                              *)
(*   [name, status, createdAt, trialDays], createdAt a clock value or      *)
(* None, trialDays a number or None.                                       *)
(***************************************************************************)
Statuses == {"ACTIVE", "ACCEPTED", "TRIAL", "DECLINED", "CANCELLED", "EXPIRED", "FROZEN", "PENDING"}

Subscription(name, status, createdAt, trialDays) ==
  [name |-> name, status |-> status, createdAt |-> createdAt, trialDays |-> trialDays]

\* Array.prototype.find: the first element with the product name, or None
RECURSIVE FindByName(_, _)
FindByName(subs, name) ==
  IF Len(subs) = 0 THEN None
  ELSE IF Head(subs).name = name THEN Some(Head(subs))
  ELSE FindByName(Tail(subs), name)

\* subscription.trialDays || 14
TrialDaysOf(subscription) ==
  IF IsSome(subscription.trialDays) /\ Get(subscription.trialDays) # 0
  THEN Get(subscription.trialDays) ELSE DefaultTrialDays

\* createdAt plus trialDays calendar days
TrialEndDate(subscription) ==
  Get(subscription.createdAt) + TrialDaysOf(subscription) * TicksPerDay

\* Math.ceil(x / one day) for a clock difference x
CeilDays(x) == -((-x) \div TicksPerDay)

Entitlement(hasAccess, isTrial, daysRemaining) ==
  [hasAccess |-> hasAccess, isTrial |-> isTrial, daysRemaining |-> daysRemaining]

\* variant: the first subscription of the list, whatever its name
checkActiveSubscription_anyName(subs, t) ==
  LET found == IF Len(subs) = 0 THEN None ELSE Some(Head(subs))
  IN IF ~IsSome(found) THEN Entitlement(FALSE, FALSE, None)
     ELSE LET subscription == Get(found)
          IN IF subscription.status = "ACTIVE" THEN Entitlement(TRUE, FALSE, None)
             ELSE IF subscription.status \in {"ACCEPTED", "TRIAL"}
             THEN IF ~IsSome(subscription.createdAt) THEN Entitlement(TRUE, TRUE, None)
                  ELSE IF t <= TrialEndDate(subscription)
                  THEN Entitlement(TRUE, TRUE, Some(CeilDays(TrialEndDate(subscription) - t)))
                  ELSE Entitlement(FALSE, FALSE, None)
             ELSE Entitlement(FALSE, FALSE, None)

\* variant: no fallback for a subscription without createdAt (new Date(null)
\* is the epoch, long before now)
checkActiveSubscription_noFallback(subs, t) ==
  LET found == FindByName(subs, PRODUCT_NAME)
  IN IF ~IsSome(found) THEN Entitlement(FALSE, FALSE, None)
     ELSE LET subscription == Get(found)
          IN IF subscription.status = "ACTIVE" THEN Entitlement(TRUE, FALSE, None)
             ELSE IF subscription.status \in {"ACCEPTED", "TRIAL"}
             THEN IF ~IsSome(subscription.createdAt) THEN Entitlement(FALSE, FALSE, None)
                  ELSE IF t <= TrialEndDate(subscription)
                  THEN Entitlement(TRUE, TRUE, Some(CeilDays(TrialEndDate(subscription) - t)))
                  ELSE Entitlement(FALSE, FALSE, None)
             ELSE Entitlement(FALSE, FALSE, None)

\* checkActiveSubscription once the provider has answered with subs
checkActiveSubscription(subs, t) ==
  LET found == FindByName(subs, PRODUCT_NAME)
  IN IF ~IsSome(found) THEN Entitlement(FALSE, FALSE, None)
     ELSE LET subscription == Get(found)
          IN IF subscription.status = "ACTIVE" THEN Entitlement(TRUE, FALSE, None)
             ELSE IF subscription.status \in {"ACCEPTED", "TRIAL"}
             THEN IF ~IsSome(subscription.createdAt) THEN Entitlement(TRUE, TRUE, None)
                  ELSE IF t <= TrialEndDate(subscription)
                  THEN Entitlement(TRUE, TRUE, Some(CeilDays(TrialEndDate(subscription) - t)))
                  ELSE Entitlement(FALSE, FALSE, None)
             ELSE Entitlement(FALSE, FALSE, None)

\* variant: the confirmation url is looked at before the userErrors
createSubscription_urlFirst(resp) ==
  IF IsSome(resp.confirmationUrl) /\ Get(resp.confirmationUrl) # ""
  THEN [ok |-> TRUE, url |-> resp.confirmationUrl, error |-> <<>>]
  ELSE IF Len(resp.userErrors) > 0
  THEN [ok |-> FALSE, url |-> None,
        error |-> <<"Failed to create subscription: ">> \o resp.userErrors]
  ELSE [ok |-> FALSE, url |-> None,
        error |-> <<"No confirmation URL returned from subscription creation">>]

\* The answer of appSubscriptionCreate: [userErrors, confirmationUrl],
\* userErrors a sequence of messages, confirmationUrl a text or None.
\* createSubscription returns the url or throws an Error with a message.
createSubscription(resp) ==
  IF Len(resp.userErrors) > 0
  THEN [ok |-> FALSE, url |-> None,
        error |-> <<"Failed to create subscription: ">> \o resp.userErrors]
  ELSE IF ~IsSome(resp.confirmationUrl) \/ Get(resp.confirmationUrl) = ""
  THEN [ok |-> FALSE, url |-> None,
        error |-> <<"No confirmation URL returned from subscription creation">>]
  ELSE [ok |-> TRUE, url |-> resp.confirmationUrl, error |-> <<>>]

(***************************************************************************)
(* State.                                                                  *)
(***************************************************************************)
VARIABLES
  now,            \* the clock
  metafield,      \* the shop metafield ai_reply.daily_usage
  subscriptions,  \* activeSubscriptions of the app installation
  req,            \* the requests in flight, one record per slot
  hist            \* history: counts of requests, calls and writes, the last write

vars == <<now, metafield, subscriptions, req, hist>>

\* messages of the action
ErrSubscription == "Subscription required. Your trial has expired or no active subscription found."
ErrFields == "Message and tone are required"
ErrLimit == "Daily limit of 100 replies reached"
ErrUsage == "Failed to check usage limit. Please try again."
ErrGenerate == "Failed to generate reply. Please try again."

\* a slot no request uses
IdleReq ==
  [kind |-> "idle", pc |-> "idle",
   formOk |-> FALSE,       \* the form carries a message and a tone
   access |-> "none",      \* checkActiveSubscription: none, granted, denied, threw
   sub |-> None,           \* subscriptionStatus
   create |-> "none",      \* createSubscription: none, ok, threw
   today |-> None,         \* const today of the usage function
   raw |-> None,           \* the metafield the usage function read
   usage |-> None,         \* the usage saveDailyUsage is to write
   ret |-> None,           \* what checkAndIncrementUsage returns after the save
   usageResult |-> None,   \* what checkAndIncrementUsage returned
   threw |-> "none",       \* checkAndIncrementUsage threw: in the read ("read"), in
                           \* getShopId ("noid", "lookup"), in the set ("userErrors", "set")
   wrote |-> None,         \* the text this request stored
   peek |-> None,          \* what getCurrentUsageCount returned
   result |-> None,        \* what the handler returned
   called |-> FALSE,       \* the action has called checkAndIncrementUsage
   writesAtCall |-> 0,     \* writes done when the usage function was called
   quiet |-> FALSE,        \* no write between that call and its read
   prevWrite |-> None,     \* the last write before the read
   reads |-> 0, lookups |-> 0, sets |-> 0, writes |-> 0, gens |-> 0]

ActionResult(reply, error) == [reply |-> reply, error |-> error]
LoaderResult(hasSubscription, confirmationUrl, usageCount, isTrial, daysRemaining) ==
  [hasSubscription |-> hasSubscription, confirmationUrl |-> confirmationUrl,
   usageCount |-> usageCount, isTrial |-> isTrial, daysRemaining |-> daysRemaining]

Finish(r, rec, result) ==
  req' = [req EXCEPT ![r] = [rec EXCEPT !.pc = "done", !.result = Some(result)]]

\* the usage function of request r is called: it takes today from the clock
CallUsage(rec, pc) ==
  [rec EXCEPT !.pc = pc, !.today = Some(getTodayDateString(now)),
              !.writesAtCall = hist.writes]

(***************************************************************************)
(* The action of the index route.                                          *)
(***************************************************************************)
\* the slot a new request takes: the first one that is free
Free(r) ==
  /\ req[r].pc \in {"idle", "done"}
  /\ \A q \in Reqs : q < r => req[q].pc \notin {"idle", "done"}

\* a request reaches the action
StartAction(r, formOk) ==
  /\ Free(r)
  /\ hist.started < MaxRequests
  /\ req' = [req EXCEPT ![r] = [IdleReq EXCEPT !.kind = "action", !.pc = "a_sub",
                                               !.formOk = formOk]]
  /\ hist' = [hist EXCEPT !.started = @ + 1]
  /\ UNCHANGED <<now, metafield, subscriptions>>

\* the same in a sequential run, which goes on until the limit has been
\* reached and MaxExtra more calls have been made
StartActionSeq(r, formOk) ==
  /\ Free(r)
  /\ hist.calls < DAILY_LIMIT + MaxExtra
  /\ req' = [req EXCEPT ![r] = [IdleReq EXCEPT !.kind = "action", !.pc = "a_sub",
                                               !.formOk = formOk]]
  /\ UNCHANGED <<now, metafield, subscriptions, hist>>

\* variant: the action goes on when access is denied
ActionSubscription_goesOn(r, throws) ==
  /\ req[r].pc = "a_sub"
  /\ LET status == checkActiveSubscription(subscriptions, now)
     IN IF throws
        THEN req' = [req EXCEPT ![r] = [@ EXCEPT !.pc = "a_form", !.access = "threw"]]
        ELSE req' = [req EXCEPT ![r] = [@ EXCEPT !.pc = "a_form",
                        !.access = IF status.hasAccess THEN "granted" ELSE "denied",
                        !.sub = Some(status)]]
  /\ UNCHANGED <<now, metafield, subscriptions, hist>>

\* variant: a failed subscription check denies the request
ActionSubscription_failClosed(r, throws) ==
  /\ req[r].pc = "a_sub"
  /\ LET status == checkActiveSubscription(subscriptions, now)
     IN IF throws
        THEN Finish(r, [req[r] EXCEPT !.access = "threw"], ActionResult("", ErrSubscription))
        ELSE IF ~status.hasAccess
        THEN Finish(r, [req[r] EXCEPT !.access = "denied", !.sub = Some(status)],
                    ActionResult("", ErrSubscription))
        ELSE req' = [req EXCEPT ![r] = [@ EXCEPT !.pc = "a_form", !.access = "granted",
                                                 !.sub = Some(status)]]
  /\ UNCHANGED <<now, metafield, subscriptions, hist>>

\* await checkActiveSubscription(admin, shop), lines 98-112
ActionSubscription(r, throws) ==
  /\ req[r].pc = "a_sub"
  /\ LET status == checkActiveSubscription(subscriptions, now)
     IN IF throws
        THEN req' = [req EXCEPT ![r] = [@ EXCEPT !.pc = "a_form", !.access = "threw"]]
        ELSE IF ~status.hasAccess
        THEN Finish(r, [req[r] EXCEPT !.access = "denied", !.sub = Some(status)],
                    ActionResult("", ErrSubscription))
        ELSE req' = [req EXCEPT ![r] = [@ EXCEPT !.pc = "a_form", !.access = "granted",
                                                 !.sub = Some(status)]]
  /\ UNCHANGED <<now, metafield, subscriptions, hist>>

\* variant: the fields are not tested before the usage function is called
ActionForm_noFieldTest(r) ==
  /\ req[r].pc = "a_form"
  /\ req' = [req EXCEPT ![r] = [CallUsage(@, "a_read") EXCEPT !.called = TRUE]]
  /\ hist' = [hist EXCEPT !.calls = @ + 1]
  /\ UNCHANGED <<now, metafield, subscriptions>>

\* await request.formData(), the field test, and the call of
\* checkAndIncrementUsage up to its first await, lines 114-124
ActionForm(r) ==
  /\ req[r].pc = "a_form"
  /\ IF ~req[r].formOk
     THEN /\ Finish(r, req[r], ActionResult("", ErrFields))
          /\ UNCHANGED hist
     ELSE /\ req' = [req EXCEPT ![r] = [CallUsage(@, "a_read") EXCEPT !.called = TRUE]]
          /\ hist' = [hist EXCEPT !.calls = @ + 1]
  /\ UNCHANGED <<now, metafield, subscriptions>>

\* variant: the action does not return when the usage is not allowed
ActionRead_noReturn(r, throws) ==
  /\ req[r].pc = "a_read"
  /\ LET rec == [req[r] EXCEPT !.reads = @ + 1, !.writesAtCall = 0,
                               !.quiet = (hist.writes = req[r].writesAtCall),
                               !.prevWrite = hist.lastWrite]
         d == checkAndIncrementUsage(metafield, Get(req[r].today))
         got == [rec EXCEPT !.raw = Some(metafield)]
     IN IF throws
        THEN Finish(r, [rec EXCEPT !.threw = "read"], ActionResult("", ErrUsage))
        ELSE IF IsSome(d.write)
        THEN req' = [req EXCEPT ![r] = [got EXCEPT !.pc = "a_shop", !.usage = d.write,
                                                   !.ret = Some(d.result)]]
        ELSE req' = [req EXCEPT ![r] = [got EXCEPT !.pc = "a_gen",
                                                   !.usageResult = Some(d.result)]]
  /\ UNCHANGED <<now, metafield, subscriptions, hist>>

\* variant: a read that throws is taken for a missing record
ActionRead_swallows(r, throws) ==
  /\ req[r].pc = "a_read"
  /\ LET rec == [req[r] EXCEPT !.reads = @ + 1, !.writesAtCall = 0,
                               !.quiet = (hist.writes = req[r].writesAtCall),
                               !.prevWrite = hist.lastWrite]
         d == checkAndIncrementUsage(IF throws THEN NoMetafield ELSE metafield,
                                     Get(req[r].today))
         got == IF throws THEN [rec EXCEPT !.threw = "read"]
                ELSE [rec EXCEPT !.raw = Some(metafield)]
     IN IF IsSome(d.write)
        THEN req' = [req EXCEPT ![r] = [got EXCEPT !.pc = "a_shop", !.usage = d.write,
                                                   !.ret = Some(d.result)]]
        ELSE IF ~d.result.allowed
        THEN Finish(r, [got EXCEPT !.usageResult = Some(d.result)], ActionResult("", ErrLimit))
        ELSE req' = [req EXCEPT ![r] = [got EXCEPT !.pc = "a_gen",
                                                   !.usageResult = Some(d.result)]]
  /\ UNCHANGED <<now, metafield, subscriptions, hist>>

\* getDailyUsage answers inside checkAndIncrementUsage; the function decides
\* and either returns (limit reached) or calls saveDailyUsage
ActionRead(r, throws) ==
  /\ req[r].pc = "a_read"
  /\ LET rec == [req[r] EXCEPT !.reads = @ + 1, !.writesAtCall = 0,
                               !.quiet = (hist.writes = req[r].writesAtCall),
                               !.prevWrite = hist.lastWrite]
         d == checkAndIncrementUsage(metafield, Get(req[r].today))
         got == [rec EXCEPT !.raw = Some(metafield)]
     IN IF throws
        THEN Finish(r, [rec EXCEPT !.threw = "read"], ActionResult("", ErrUsage))
        ELSE IF IsSome(d.write)
        THEN req' = [req EXCEPT ![r] = [got EXCEPT !.pc = "a_shop", !.usage = d.write,
                                                   !.ret = Some(d.result)]]
        ELSE IF ~d.result.allowed
        THEN Finish(r, [got EXCEPT !.usageResult = Some(d.result)], ActionResult("", ErrLimit))
        ELSE req' = [req EXCEPT ![r] = [got EXCEPT !.pc = "a_gen",
                                                   !.usageResult = Some(d.result)]]
  /\ UNCHANGED <<now, metafield, subscriptions, hist>>

\* getShopId answers inside saveDailyUsage: "id", "noid" or "lookup" (the
\* call throws)
ActionShopId(r, outcome) ==
  /\ req[r].pc = "a_shop"
  /\ LET rec == [req[r] EXCEPT !.lookups = @ + 1]
     IN IF outcome = "id"
        THEN req' = [req EXCEPT ![r] = [rec EXCEPT !.pc = "a_set"]]
        ELSE Finish(r, [rec EXCEPT !.threw = outcome], ActionResult("", ErrUsage))
  /\ UNCHANGED <<now, metafield, subscriptions, hist>>

\* variant: saveDailyUsage does not look at userErrors
ActionSet_ignoresErrors(r, outcome) ==
  /\ req[r].pc = "a_set"
  /\ LET rec == [req[r] EXCEPT !.sets = @ + 1]
         stored == [rec EXCEPT !.writes = @ + 1, !.usageResult = req[r].ret,
                               !.wrote = Some(JSONstringify(Get(req[r].usage)))]
     IN IF outcome = "ok"
        THEN /\ metafield' = JSONstringify(Get(req[r].usage))
             /\ hist' = [hist EXCEPT !.writes = @ + 1,
                                     !.lastWrite = Some([raw |-> Get(req[r].raw),
                                                         today |-> Get(req[r].today),
                                                         usage |-> Get(req[r].usage)])]
             /\ IF Get(req[r].ret).allowed
                THEN req' = [req EXCEPT ![r] = [stored EXCEPT !.pc = "a_gen"]]
                ELSE Finish(r, stored, ActionResult("", ErrLimit))
        ELSE IF outcome = "userErrors"
        THEN /\ req' = [req EXCEPT ![r] = [rec EXCEPT !.pc = "a_gen", !.threw = outcome,
                                                      !.usageResult = req[r].ret]]
             /\ UNCHANGED <<metafield, hist>>
        ELSE /\ Finish(r, [rec EXCEPT !.threw = outcome], ActionResult("", ErrUsage))
             /\ UNCHANGED <<metafield, hist>>
  /\ UNCHANGED <<now, subscriptions>>

\* variant: the read and the write are one transaction, the write is the
\* increment of the record the store holds at the time of the write
ActionSet_atomic(r, outcome) ==
  /\ req[r].pc = "a_set"
  /\ LET rec == [req[r] EXCEPT !.sets = @ + 1]
         fresh == checkAndIncrementUsage(metafield, Get(req[r].today))
         usage == IF IsSome(fresh.write) THEN Get(fresh.write) ELSE Get(req[r].usage)
         stored == [rec EXCEPT !.writes = @ + 1, !.usageResult = req[r].ret,
                               !.wrote = Some(JSONstringify(usage))]
     IN IF outcome = "ok"
        THEN /\ metafield' = JSONstringify(usage)
             /\ hist' = [hist EXCEPT !.writes = @ + 1,
                                     !.lastWrite = Some([raw |-> Get(req[r].raw),
                                                         today |-> Get(req[r].today),
                                                         usage |-> usage])]
             /\ IF Get(req[r].ret).allowed
                THEN req' = [req EXCEPT ![r] = [stored EXCEPT !.pc = "a_gen"]]
                ELSE Finish(r, stored, ActionResult("", ErrLimit))
        ELSE /\ Finish(r, [rec EXCEPT !.threw = outcome], ActionResult("", ErrUsage))
             /\ UNCHANGED <<metafield, hist>>
  /\ UNCHANGED <<now, subscriptions>>

\* metafieldsSet answers inside saveDailyUsage: "ok", "userErrors" or "set"
\* (the call throws);
\* on "ok" checkAndIncrementUsage returns and the action calls generateAIReply
ActionSet(r, outcome) ==
  /\ req[r].pc = "a_set"
  /\ LET rec == [req[r] EXCEPT !.sets = @ + 1]
         stored == [rec EXCEPT !.writes = @ + 1, !.usageResult = req[r].ret,
                               !.wrote = Some(JSONstringify(Get(req[r].usage)))]
     IN IF outcome = "ok"
        THEN /\ metafield' = JSONstringify(Get(req[r].usage))
             /\ hist' = [hist EXCEPT !.writes = @ + 1,
                                     !.lastWrite = Some([raw |-> Get(req[r].raw),
                                                         today |-> Get(req[r].today),
                                                         usage |-> Get(req[r].usage)])]
             /\ IF Get(req[r].ret).allowed
                THEN req' = [req EXCEPT ![r] = [stored EXCEPT !.pc = "a_gen"]]
                ELSE Finish(r, stored, ActionResult("", ErrLimit))
        ELSE /\ Finish(r, [rec EXCEPT !.threw = outcome], ActionResult("", ErrUsage))
             /\ UNCHANGED <<metafield, hist>>
  /\ UNCHANGED <<now, subscriptions>>

\* variant: a failed generation gives the charged use back
ActionGenerate_refunds(r, throws) ==
  /\ req[r].pc = "a_gen"
  /\ LET rec == [req[r] EXCEPT !.gens = @ + 1]
         usage == Get(req[r].usage)
     IN IF throws
        THEN /\ Finish(r, rec, ActionResult("", ErrGenerate))
             /\ metafield' = IF usage.count.t = "num"
                             THEN JSONstringify([usage EXCEPT !.count = JSNum(@.n - 1)])
                             ELSE metafield
        ELSE /\ Finish(r, rec, ActionResult("reply", ""))
             /\ UNCHANGED metafield
  /\ hist' = [hist EXCEPT !.gens = @ + 1]
  /\ UNCHANGED <<now, subscriptions>>

\* generateAIReply answers, lines 140-153
ActionGenerate(r, throws) ==
  /\ req[r].pc = "a_gen"
  /\ LET rec == [req[r] EXCEPT !.gens = @ + 1]
     IN IF throws
        THEN Finish(r, rec, ActionResult("", ErrGenerate))
        ELSE Finish(r, rec, ActionResult("reply", ""))
  /\ hist' = [hist EXCEPT !.gens = @ + 1]
  /\ UNCHANGED <<now, metafield, subscriptions>>

(***************************************************************************)
(* The loader of the index route.                                          *)
(***************************************************************************)
StartLoader(r) ==
  /\ Free(r)
  /\ hist.started < MaxRequests
  /\ req' = [req EXCEPT ![r] = [IdleReq EXCEPT !.kind = "loader", !.pc = "l_sub"]]
  /\ hist' = [hist EXCEPT !.started = @ + 1]
  /\ UNCHANGED <<now, metafield, subscriptions>>

StartLoaderSeq(r) ==
  /\ Free(r)
  /\ hist.calls < DAILY_LIMIT + MaxExtra
  /\ req' = [req EXCEPT ![r] = [IdleReq EXCEPT !.kind = "loader", !.pc = "l_sub"]]
  /\ UNCHANGED <<now, metafield, subscriptions, hist>>

\* await checkActiveSubscription(admin, shop), lines 22-25 and 74-77
LoaderSubscription(r, throws) ==
  /\ req[r].pc = "l_sub"
  /\ LET status == checkActiveSubscription(subscriptions, now)
     IN IF throws
        THEN req' = [req EXCEPT ![r] = CallUsage([@ EXCEPT !.access = "threw"], "l_read")]
        ELSE IF ~status.hasAccess
        THEN req' = [req EXCEPT ![r] = [@ EXCEPT !.pc = "l_create", !.access = "denied",
                                                 !.sub = Some(status)]]
        ELSE req' = [req EXCEPT ![r] = CallUsage([@ EXCEPT !.access = "granted",
                                                           !.sub = Some(status)], "l_read")]
  /\ UNCHANGED <<now, metafield, subscriptions, hist>>

\* the answers of appSubscriptionCreate
CreateResponses ==
  { [userErrors |-> e, confirmationUrl |-> u] :
      e \in {<<>>, <<"e1">>, <<"e1", "e2">>}, u \in {None, Some(""), Some("url")} }

\* variant: a failed createSubscription makes the loader report no subscription
LoaderCreate_failClosed(r, throws, resp) ==
  /\ req[r].pc = "l_create"
  /\ LET c == createSubscription(resp)
     IN IF throws \/ ~c.ok
        THEN Finish(r, [req[r] EXCEPT !.create = "threw"],
                    LoaderResult(FALSE, None, JSNum(0), FALSE, None))
        ELSE Finish(r, [req[r] EXCEPT !.create = "ok"],
                    LoaderResult(FALSE, c.url, JSNum(0), FALSE, None))
  /\ UNCHANGED <<now, metafield, subscriptions, hist>>

\* await createSubscription(admin, shop, returnUrl), lines 27-41; the call
\* throws by itself (throws) or createSubscription decides on the answer
LoaderCreate(r, throws, resp) ==
  /\ req[r].pc = "l_create"
  /\ LET c == createSubscription(resp)
     IN IF throws \/ ~c.ok
        THEN req' = [req EXCEPT ![r] = CallUsage([@ EXCEPT !.create = "threw"], "l_read")]
        ELSE Finish(r, [req[r] EXCEPT !.create = "ok"],
                    LoaderResult(FALSE, c.url, JSNum(0), FALSE, None))
  /\ UNCHANGED <<now, metafield, subscriptions, hist>>

\* getDailyUsage answers inside getCurrentUsageCount, lines 40-53, 58-73, 77-90
LoaderRead(r, throws) ==
  /\ req[r].pc = "l_read"
  /\ LET rec == [req[r] EXCEPT !.reads = @ + 1, !.writesAtCall = 0,
                               !.quiet = (hist.writes = req[r].writesAtCall),
                               !.prevWrite = hist.lastWrite]
         count == getCurrentUsageCount(metafield, Get(req[r].today))
         got == IF throws THEN [rec EXCEPT !.threw = "read"]
                ELSE [rec EXCEPT !.raw = Some(metafield), !.peek = Some(count)]
         usageCount == IF throws THEN JSNum(0) ELSE count
     IN IF req[r].access = "granted"
        THEN Finish(r, got, LoaderResult(TRUE, None, usageCount,
                                         Get(req[r].sub).isTrial, Get(req[r].sub).daysRemaining))
        ELSE Finish(r, got, LoaderResult(TRUE, None, usageCount, FALSE, None))
  /\ UNCHANGED <<now, metafield, subscriptions, hist>>

(***************************************************************************)
(* The clock.                                                              *)
(***************************************************************************)
Tick ==
  /\ now < StartNow + MaxTicks
  /\ now' = now + 1
  /\ UNCHANGED <<metafield, subscriptions, req, hist>>

(***************************************************************************)
(* Initial states.  The metafield is whatever the store holds when the     *)
(* app first looks: nothing, a text that is no usage record, or a usage    *)
(* record of yesterday or of today.                                        *)
(***************************************************************************)
Today0 == StartNow \div TicksPerDay

StoredCounts ==
  {JSNum(1), JSNum(DAILY_LIMIT - 1), JSNum(DAILY_LIMIT), JSNum(DAILY_LIMIT + 1),
   JSUndef, JSNull, JSStr(<<5>>)}

StaleCounts == {JSNum(1), JSNum(DAILY_LIMIT + 1), JSUndef}

StoredValues ==
  {NoMetafield, EmptyText, GarbageText, JsonText(JSNull), JsonText(JSNum(5)),
   JsonText(JSObj(JSNum(1), JSUndef))}
  \cup {JsonText(JSObj(c, JSDate(Today0))) : c \in StoredCounts}
  \cup {JsonText(JSObj(c, JSDate(Today0 - 1))) : c \in StaleCounts}

\* a trial of the default length that ends at StartNow
TrialStart == StartNow - DefaultTrialDays * TicksPerDay

TrialList ==
  <<Subscription("other", "ACTIVE", Some(0), None),
    Subscription(PRODUCT_NAME, "ACCEPTED", Some(TrialStart), None)>>

SubscriptionLists ==
  {<<Subscription("other", "ACTIVE", Some(0), None)>>,
   <<Subscription(PRODUCT_NAME, "ACTIVE", Some(0), None)>>,
   TrialList,
   <<Subscription(PRODUCT_NAME, "TRIAL", None, None)>>}

\* the stored value is what the app itself leaves behind: no metafield, or a
\* record with an integer count from 0 to DAILY_LIMIT and a date
ValidStart(mf) ==
  \/ mf = NoMetafield
  \/ /\ mf.k = "json"
     /\ mf.v.t = "obj"
     /\ mf.v.count.t = "num"
     /\ mf.v.count.n \in 0..DAILY_LIMIT
     /\ mf.v.date.t = "date"

Hist0 ==
  [started |-> 0, calls |-> 0, writes |-> 0, lastWrite |-> None, gens |-> 0,
   clean |-> TRUE]

\* every stored value with a trial that runs out while the clock ticks, and
\* every subscription list with no record and with a record one below the limit
Init ==
  /\ now = StartNow
  /\ \/ /\ metafield \in StoredValues
        /\ subscriptions = TrialList
     \/ /\ metafield \in {NoMetafield, JsonText(JSObj(JSNum(DAILY_LIMIT - 1), JSDate(Today0)))}
        /\ subscriptions \in SubscriptionLists
  /\ req = [r \in Reqs |-> IdleReq]
  /\ hist = [Hist0 EXCEPT !.clean = ValidStart(metafield)]

Next ==
  \/ \E r \in Reqs, formOk \in BOOLEAN : StartAction(r, formOk)
  \/ \E r \in Reqs, throws \in BOOLEAN : ActionSubscription(r, throws)
  \/ \E r \in Reqs : ActionForm(r)
  \/ \E r \in Reqs, throws \in BOOLEAN : ActionRead(r, throws)
  \/ \E r \in Reqs, outcome \in {"id", "noid", "lookup"} : ActionShopId(r, outcome)
  \/ \E r \in Reqs, outcome \in {"ok", "userErrors", "set"} : ActionSet(r, outcome)
  \/ \E r \in Reqs, throws \in BOOLEAN : ActionGenerate(r, throws)
  \/ \E r \in Reqs : StartLoader(r)
  \/ \E r \in Reqs, throws \in BOOLEAN : LoaderSubscription(r, throws)
  \/ \E r \in Reqs, throws \in BOOLEAN, resp \in CreateResponses : LoaderCreate(r, throws, resp)
  \/ \E r \in Reqs, throws \in BOOLEAN : LoaderRead(r, throws)
  \/ Tick

Spec == Init /\ [][Next]_vars

(***************************************************************************)
(* The sequential run: one request at a time, the day fixed, the store     *)
(* and the billing provider answering every call, no record stored at the  *)
(* start.                                                                  *)
(***************************************************************************)
InitSeq ==
  /\ now = StartNow
  /\ metafield = NoMetafield
  /\ subscriptions \in SubscriptionLists
  /\ req = [r \in Reqs |-> IdleReq]
  /\ hist = Hist0

NextSeq ==
  \/ \E formOk \in BOOLEAN : StartActionSeq(1, formOk)
  \/ ActionSubscription(1, FALSE)
  \/ ActionForm(1)
  \/ ActionRead(1, FALSE)
  \/ ActionShopId(1, "id")
  \/ ActionSet(1, "ok")
  \/ \E throws \in BOOLEAN : ActionGenerate(1, throws)
  \/ StartLoaderSeq(1)
  \/ LoaderSubscription(1, FALSE)
  \/ \E resp \in CreateResponses : LoaderCreate(1, FALSE, resp)
  \/ LoaderRead(1, FALSE)

SpecSeq == InitSeq /\ [][NextSeq]_vars

(***************************************************************************)
(* The billing functions on their own: the subscriptions and the clock     *)
(* are drawn at the start, and a call applies checkActiveSubscription to   *)
(* them, or createSubscription to an answer of appSubscriptionCreate.      *)
(***************************************************************************)
TrialDaysSamples == {None, Some(0), Some(1), Some(7), Some(DefaultTrialDays)}

CreatedAtSamples ==
  {None} \cup {Some(StartNow - k) : k \in 0..(MaxAgeDays * TicksPerDay)}

ProductSubscriptions ==
  {Subscription(PRODUCT_NAME, s, c, d) :
     s \in Statuses, c \in CreatedAtSamples, d \in TrialDaysSamples}

OtherSubscription == Subscription("other", "ACTIVE", Some(0), None)

SubscriptionInputs ==
  {<<>>, <<OtherSubscription>>}
  \cup {<<s>> : s \in ProductSubscriptions}
  \cup {<<OtherSubscription, s>> : s \in ProductSubscriptions}
  \cup {<<s, Subscription(PRODUCT_NAME, "ACTIVE", Some(0), None)>> :
          s \in ProductSubscriptions}

\* checkActiveSubscription(admin, shop) is called and the provider answers
CallCheckActiveSubscription(r) ==
  /\ req[r].pc \in {"idle", "done"}
  /\ req' = [req EXCEPT ![r] =
               [IdleReq EXCEPT !.kind = "resolve", !.pc = "done",
                               !.sub = Some(checkActiveSubscription(subscriptions, now))]]
  /\ UNCHANGED <<now, metafield, subscriptions, hist>>

\* createSubscription(admin, shop, returnUrl) is called and the provider
\* answers with resp
CallCreateSubscription(r, resp) ==
  /\ req[r].pc \in {"idle", "done"}
  /\ LET c == createSubscription(resp)
     IN req' = [req EXCEPT ![r] =
                  [IdleReq EXCEPT !.kind = "create", !.pc = "done",
                                  !.create = IF c.ok THEN "ok" ELSE "threw",
                                  !.result = Some([resp |-> resp, out |-> c])]]
  /\ UNCHANGED <<now, metafield, subscriptions, hist>>

InitBilling ==
  /\ now \in {StartNow, StartNow + 1}
  /\ metafield = NoMetafield
  /\ subscriptions \in SubscriptionInputs
  /\ req = [r \in Reqs |-> IdleReq]
  /\ hist = Hist0

NextBilling ==
  \/ CallCheckActiveSubscription(1)
  \/ \E resp \in CreateResponses : CallCreateSubscription(1, resp)

SpecBilling == InitBilling /\ [][NextBilling]_vars

(***************************************************************************)
(* Properties.                                                             *)
(***************************************************************************)
Actions == {r \in Reqs : req[r].kind = "action"}
Loaders == {r \in Reqs : req[r].kind = "loader"}

\* checkAndIncrementUsage of request r has returned a decision
Returned(r) == IsSome(req[r].usageResult)

\* the text is a usage record of day d with count c
Record(c, d) == JsonText(JSObj(c, JSDate(d)))
Day(rec) == Get(rec.today).d

\* the text is a well-formed usage record: an integer count and a date
WellFormed(mf) ==
  /\ mf.k = "json"
  /\ mf.v.t = "obj"
  /\ mf.v.count.t = "num"
  /\ mf.v.date.t = "date"

Min(a, b) == IF a < b THEN a ELSE b

\* C1: in a sequential run that starts with no record and stays within one
\* day, the k-th call of checkAndIncrementUsage returns allowed with count k
\* as long as k <= DAILY_LIMIT, and denied with count DAILY_LIMIT after that.
\* (hist.calls is the number of the call of the one request there is)
C1_SequentialCounts ==
  \A r \in Actions :
    req[r].called /\ req[r].pc \in {"a_gen", "done"} =>
      /\ Returned(r)
      /\ Get(req[r].usageResult) =
           [allowed |-> hist.calls <= DAILY_LIMIT,
            currentCount |-> JSNum(Min(hist.calls, DAILY_LIMIT))]

\* the call made at stored count DAILY_LIMIT - 1 has been allowed with
\* DAILY_LIMIT and a later call has been denied
C1_Witness ==
  \E r \in Actions :
    /\ hist.calls = DAILY_LIMIT + 2
    /\ Returned(r)
    /\ ~Get(req[r].usageResult).allowed
    /\ Get(hist.lastWrite).usage.count = JSNum(DAILY_LIMIT)
    /\ Get(hist.lastWrite).raw = Record(JSNum(DAILY_LIMIT - 1), Today0)

\* C2: a call of checkAndIncrementUsage that finds no metafield stores
\* {count: 1, date: today} and returns {allowed: true, currentCount: 1}; a
\* getCurrentUsageCount called after that call returned, on the same day and
\* with no write in between, returns 1.
C2_FirstUse ==
  /\ \A r \in Actions :
       IsSome(req[r].raw) /\ Get(req[r].raw) = NoMetafield =>
         /\ req[r].usage = Some([count |-> JSNum(1), date |-> Get(req[r].today)])
         /\ Returned(r) =>
              /\ Get(req[r].usageResult) = [allowed |-> TRUE, currentCount |-> JSNum(1)]
              /\ req[r].wrote = Some(Record(JSNum(1), Day(req[r])))
  /\ \A p \in Loaders :
       /\ IsSome(req[p].peek)
       /\ req[p].quiet
       /\ IsSome(req[p].prevWrite)
       /\ Get(req[p].prevWrite).raw = NoMetafield
       /\ Get(req[p].prevWrite).today = Get(req[p].today)
       => Get(req[p].peek) = JSNum(1)

C2_Witness ==
  \E p \in Loaders :
    /\ IsSome(req[p].peek)
    /\ req[p].quiet
    /\ IsSome(req[p].prevWrite)
    /\ Get(req[p].prevWrite).raw = NoMetafield
    /\ Get(req[p].prevWrite).today = Get(req[p].today)

\* C3: a call of checkAndIncrementUsage that finds a record of another day
\* stores {count: 1, date: today} and returns {allowed: true, currentCount: 1},
\* whatever the count of that record.
C3_DailyReset ==
  \A r \in Actions :
    /\ IsSome(req[r].raw)
    /\ Get(req[r].raw).k = "json"
    /\ Get(req[r].raw).v.t = "obj"
    /\ Get(req[r].raw).v.date.t = "date"
    /\ Get(req[r].raw).v.date.d # Day(req[r])
    => /\ req[r].usage = Some([count |-> JSNum(1), date |-> Get(req[r].today)])
       /\ Returned(r) =>
            /\ Get(req[r].usageResult) = [allowed |-> TRUE, currentCount |-> JSNum(1)]
            /\ req[r].wrote = Some(Record(JSNum(1), Day(req[r])))

\* a record of yesterday with a count above the limit has been reset
C3_Witness ==
  \E r \in Actions :
    /\ Returned(r)
    /\ IsSome(req[r].wrote)
    /\ Get(req[r].raw) = Record(JSNum(DAILY_LIMIT + 1), Day(req[r]) - 1)

\* the text is today's well-formed record for a usage function whose today is t
TodayRecord(mf, t) == WellFormed(mf) /\ mf.v.date = t

\* C4: a call of checkAndIncrementUsage that reads today's record with
\* count >= DAILY_LIMIT returns {allowed: false, currentCount: count} in that
\* very step, without a store-id lookup or a set call, and leaves the
\* metafield as it was.
C4_DeniedNoWrite ==
  [][\A r \in Reqs :
       /\ req[r].pc = "a_read"
       /\ req'[r] # req[r]
       /\ req'[r].threw = "none"
       /\ TodayRecord(metafield, Get(req[r].today))
       /\ metafield.v.count.n >= DAILY_LIMIT
       => /\ req'[r].usageResult =
               Some([allowed |-> FALSE, currentCount |-> metafield.v.count])
          /\ req'[r].pc = "done"
          /\ req'[r].result = Some(ActionResult("", ErrLimit))
          /\ req'[r].lookups = 0 /\ req'[r].sets = 0 /\ req'[r].writes = 0
          /\ req'[r].wrote = None
          /\ metafield' = metafield]_vars

C4_Witness ==
  \E r \in Actions :
    /\ Returned(r)
    /\ ~Get(req[r].usageResult).allowed
    /\ TodayRecord(Get(req[r].raw), Get(req[r].today))
    /\ Get(req[r].raw).v.count.n >= DAILY_LIMIT
    /\ metafield = Get(req[r].raw)

\* C5: no step of a loader changes the metafield, and getCurrentUsageCount
\* returns the count of the record it read when that record is of today,
\* and 0 when there is no metafield or the record is of another day.
C5_PeekReadOnly ==
  [][\A p \in Reqs :
       req'[p].kind = "loader" /\ req'[p] # req[p] =>
         /\ metafield' = metafield
         /\ req'[p].lookups = 0 /\ req'[p].sets = 0 /\ req'[p].writes = 0
         /\ req[p].pc = "l_read" /\ req'[p].threw = "none" =>
              /\ IsSome(req'[p].peek)
              /\ metafield = NoMetafield => Get(req'[p].peek) = JSNum(0)
              /\ TodayRecord(metafield, Get(req[p].today)) =>
                   Get(req'[p].peek) = metafield.v.count
              /\ WellFormed(metafield) /\ metafield.v.date # Get(req[p].today) =>
                   Get(req'[p].peek) = JSNum(0)]_vars

\* a peek has returned the count of today's record, which is still stored
C5_Witness ==
  \E p \in Loaders :
    /\ IsSome(req[p].peek)
    /\ TodayRecord(Get(req[p].raw), Get(req[p].today))
    /\ Get(req[p].peek) = JSNum(DAILY_LIMIT - 1)
    /\ metafield = Get(req[p].raw)

\* the metafield holds a text that is no well-formed usage record
Malformed(mf) == mf # NoMetafield /\ ~WellFormed(mf)

\* C6: a usage function that reads a text that is not a well-formed usage
\* record does what it does when there is no metafield:
\* checkAndIncrementUsage stores {count: 1, date: today} and returns
\* {allowed: true, currentCount: 1}, getCurrentUsageCount returns 0.
C6_MalformedAsAbsent ==
  \A r \in Reqs :
    IsSome(req[r].raw) /\ Malformed(Get(req[r].raw)) =>
      /\ r \in Actions =>
           /\ req[r].usage = Some([count |-> JSNum(1), date |-> Get(req[r].today)])
           /\ Returned(r) =>
                Get(req[r].usageResult) = [allowed |-> TRUE, currentCount |-> JSNum(1)]
      /\ r \in Loaders => req[r].peek = Some(JSNum(0))

\* C7: an action whose subscription check returned hasAccess = false has
\* returned the subscription-required message and has not touched the usage
\* counter: no read, no store-id lookup, no set, no generation.
C7_NoAccessNoCounter ==
  \A r \in Actions :
    req[r].access = "denied" =>
      /\ req[r].pc = "done"
      /\ req[r].result = Some(ActionResult("", ErrSubscription))
      /\ ~req[r].called /\ req[r].today = None
      /\ req[r].reads = 0 /\ req[r].lookups = 0 /\ req[r].sets = 0
      /\ req[r].writes = 0 /\ req[r].gens = 0

C7_Witness ==
  \E r \in Actions :
    /\ req[r].access = "denied"
    /\ ~Get(req[r].sub).hasAccess
    /\ req[r].formOk

\* generateAIReply has been called in request r
Generating(r) == req[r].pc = "a_gen" \/ req[r].gens > 0

\* C8 as stated: generateAIReply is called only after the subscription check
\* returned hasAccess = true and checkAndIncrementUsage returned allowed.
C8_Original ==
  \A r \in Actions :
    Generating(r) =>
      /\ req[r].access = "granted"
      /\ Returned(r) /\ Get(req[r].usageResult).allowed

\* C8: generateAIReply is called only after the subscription check either
\* returned hasAccess = true or threw, and checkAndIncrementUsage returned
\* allowed.
C8_GenerateGated ==
  \A r \in Actions :
    Generating(r) =>
      /\ \/ req[r].access = "granted" /\ Get(req[r].sub).hasAccess
         \/ req[r].access = "threw"
      /\ Returned(r) /\ Get(req[r].usageResult).allowed
      /\ req[r].threw = "none"

C8_Witness ==
  \E r \in Actions :
    /\ req[r].gens > 0
    /\ req[r].access = "threw"
    /\ Get(req[r].usageResult).allowed

\* C9: an action whose subscription check threw is not denied for its
\* subscription and goes on to the form test and the usage counter; a loader
\* whose subscription check threw creates no subscription and returns
\* hasSubscription = true.
C9_FailOpen ==
  /\ \A r \in Actions :
       req[r].access = "threw" =>
         /\ req[r].result # Some(ActionResult("", ErrSubscription))
         /\ req[r].pc # "a_form" /\ req[r].formOk => req[r].called
  /\ \A p \in Loaders :
       req[p].access = "threw" =>
         /\ req[p].create = "none"
         /\ req[p].pc = "done" => Get(req[p].result).hasSubscription

C9_Witness ==
  /\ \E r \in Actions : req[r].access = "threw" /\ Returned(r)
  /\ \E p \in Loaders : req[p].access = "threw" /\ req[p].pc = "done"

WriteFailures == {"noid", "lookup", "userErrors", "set"}

\* C10: when getShopId finds no id, metafieldsSet reports userErrors or one
\* of the two calls throws, checkAndIncrementUsage returns no decision, and
\* the action returns the usage-check failure message without calling
\* generateAIReply.
C10_WriteFailureDenies ==
  \A r \in Actions :
    req[r].threw \in WriteFailures =>
      /\ ~Returned(r)
      /\ req[r].pc = "done"
      /\ req[r].result = Some(ActionResult("", ErrUsage))
      /\ req[r].gens = 0 /\ req[r].writes = 0

C10_Witness ==
  /\ \E r \in Actions : req[r].threw = "userErrors"
  /\ \E r \in Actions : req[r].threw \in {"noid", "lookup", "set"}


\* C11 as stated: an action whose usage read threw goes on as if there were
\* no record, to the save and to generateAIReply, and is not denied.
C11_Original ==
  \A r \in Actions :
    req[r].threw = "read" =>
      /\ req[r].result # Some(ActionResult("", ErrUsage))
      /\ req[r].usage = Some([count |-> JSNum(1), date |-> Get(req[r].today)])

\* C11: an action whose usage read threw gets no decision from
\* checkAndIncrementUsage and is denied with the usage-check failure
\* message: no save is started and generateAIReply is not called.
C11_ReadFailureDenies ==
  \A r \in Actions :
    req[r].threw = "read" =>
      /\ ~Returned(r)
      /\ req[r].pc = "done"
      /\ req[r].result = Some(ActionResult("", ErrUsage))
      /\ req[r].raw = None /\ req[r].usage = None
      /\ req[r].lookups = 0 /\ req[r].sets = 0 /\ req[r].writes = 0
      /\ req[r].gens = 0

C11_Witness ==
  \E r \in Actions :
    /\ req[r].threw = "read"
    /\ req[r].reads = 1
    /\ req[r].access = "granted"


Resolves == {r \in Reqs : req[r].kind = "resolve"}
Creates == {r \in Reqs : req[r].kind = "create"}

\* the subscriptions with the product name, and the first of them
Matches == {i \in 1..Len(subscriptions) : subscriptions[i].name = "pro_monthly"}
Matched == subscriptions[CHOOSE i \in Matches : \A j \in Matches : i <= j]

NoEntitlement == [hasAccess |-> FALSE, isTrial |-> FALSE, daysRemaining |-> None]

\* C12: checkActiveSubscription returns {hasAccess: false, isTrial: false}
\* when no subscription has the product name, {hasAccess: true, isTrial:
\* false} when the one that has it is ACTIVE, whatever its createdAt and
\* trialDays, and {hasAccess: false, isTrial: false} when its status is
\* none of ACTIVE, ACCEPTED and TRIAL.
C12_Classification ==
  \A r \in Resolves :
    LET out == Get(req[r].sub)
    IN /\ Matches = {} => out = NoEntitlement
       /\ Matches # {} /\ Matched.status = "ACTIVE" =>
            out = [hasAccess |-> TRUE, isTrial |-> FALSE, daysRemaining |-> None]
       /\ Matches # {} /\ Matched.status \notin {"ACTIVE", "ACCEPTED", "TRIAL"} =>
            out = NoEntitlement

\* an ACTIVE subscription older than any trial has been classified, behind a
\* subscription of another name
C12_Witness ==
  \E r \in Resolves :
    /\ Len(subscriptions) = 2
    /\ Matches = {2}
    /\ Matched.status = "ACTIVE"
    /\ Matched.createdAt = Some(StartNow - MaxAgeDays * TicksPerDay)
    /\ Get(req[r].sub).hasAccess


\* a trial subscription with a createdAt is the one that decides
TrialCase ==
  /\ Matches # {}
  /\ Matched.status \in {"ACCEPTED", "TRIAL"}
  /\ IsSome(Matched.createdAt)

\* the trial length the spec gives: the supplied trialDays, 14 if none
SuppliedTrialDays ==
  IF IsSome(Matched.trialDays) THEN Get(Matched.trialDays) ELSE DefaultTrialDays

\* k is the number of days, rounded up, in a clock difference x >= 0
IsCeilDays(k, x) == k * TicksPerDay >= x /\ (k - 1) * TicksPerDay < x

\* C13: for a trial subscription with a createdAt, with trialEnd = createdAt
\* + trialDays days, checkActiveSubscription returns {hasAccess: true,
\* isTrial: true, daysRemaining: ceil(days from now to trialEnd)} with
\* daysRemaining in 0..trialDays when now <= trialEnd, and {hasAccess: false,
\* isTrial: false} when now > trialEnd.
C13_TrialWindow ==
  \A r \in Resolves :
    TrialCase =>
      LET out == Get(req[r].sub)
          trialEnd == Get(Matched.createdAt) + SuppliedTrialDays * TicksPerDay
      IN IF now <= trialEnd
         THEN /\ out.hasAccess /\ out.isTrial
              /\ IsSome(out.daysRemaining)
              /\ IsCeilDays(Get(out.daysRemaining), trialEnd - now)
              /\ Get(out.daysRemaining) \in 0..SuppliedTrialDays
         ELSE out = NoEntitlement

\* C14: for a trial subscription without createdAt checkActiveSubscription
\* returns {hasAccess: true, isTrial: true} and no daysRemaining, at every
\* clock value and every trialDays.
C14_MissingCreatedAt ==
  \A r \in Resolves :
    /\ Matches # {}
    /\ Matched.status \in {"ACCEPTED", "TRIAL"}
    /\ Matched.createdAt = None
    => Get(req[r].sub) = [hasAccess |-> TRUE, isTrial |-> TRUE, daysRemaining |-> None]

C14_Witness ==
  \E r \in Resolves :
    /\ Matches # {}
    /\ Matched.status = "TRIAL"
    /\ Matched.createdAt = None
    /\ Matched.trialDays = Some(0)
    /\ now = StartNow + 1
    /\ Get(req[r].sub).hasAccess

\* C15: createSubscription throws an error that lists every message of a
\* non-empty userErrors, with or without a confirmation url; throws the
\* missing-confirmation-url error when there are no userErrors and no url;
\* returns the url when there are no userErrors and the url is not empty.
C15_CreateOutcome ==
  \A r \in Creates :
    LET resp == Get(req[r].result).resp
        out == Get(req[r].result).out
        hasUrl == resp.confirmationUrl \notin {None, Some("")}
    IN /\ Len(resp.userErrors) > 0 =>
            /\ ~out.ok /\ out.url = None
            /\ Len(out.error) = 1 + Len(resp.userErrors)
            /\ out.error[1] = "Failed to create subscription: "
            /\ \A i \in 1..Len(resp.userErrors) : out.error[i + 1] = resp.userErrors[i]
       /\ Len(resp.userErrors) = 0 /\ ~hasUrl =>
            /\ ~out.ok /\ out.url = None
            /\ out.error = <<"No confirmation URL returned from subscription creation">>
       /\ Len(resp.userErrors) = 0 /\ hasUrl =>
            out.ok /\ out.url = resp.confirmationUrl /\ out.error = <<>>

\* createSubscription has thrown on two userErrors that came with a url
C15_Witness ==
  \E r \in Creates :
    /\ Get(req[r].result).resp = [userErrors |-> <<"e1", "e2">>, confirmationUrl |-> Some("url")]
    /\ ~Get(req[r].result).out.ok

\* C17: for a trial subscription with a createdAt and a supplied trialDays
\* d >= 0, checkActiveSubscription gives access exactly when
\* now <= createdAt + d days; without a supplied trialDays, exactly when
\* now <= createdAt + 14 days.
C17_SuppliedTrialDays ==
  \A r \in Resolves :
    TrialCase =>
      Get(req[r].sub).hasAccess <=>
        now <= Get(Matched.createdAt) + SuppliedTrialDays * TicksPerDay


\* requests r and q are two calls of checkAndIncrementUsage of the same day
\* that have read the same well-formed record of that day, with a count
\* below the limit, and have both stored their record
SameRead(r, q) ==
  /\ r # q
  /\ IsSome(req[r].raw) /\ req[q].raw = req[r].raw
  /\ req[q].today = req[r].today
  /\ TodayRecord(Get(req[r].raw), Get(req[r].today))
  /\ Get(req[r].raw).v.count.n < DAILY_LIMIT
  /\ IsSome(req[r].wrote) /\ IsSome(req[q].wrote)

\* C16: the read-modify-write of the usage counter is not atomic: when two
\* requests of one day have both read the same count c < DAILY_LIMIT, both
\* are allowed with count c + 1, both store count c + 1, and the stored
\* count ends at c + 1, one request being lost (the witness is the
\* interleaving, at c = DAILY_LIMIT - 1: more than DAILY_LIMIT allowed).
C16_LostUpdate ==
  \A r \in Actions, q \in Actions :
    SameRead(r, q) =>
      LET c == Get(req[r].raw).v.count.n
          next == Record(JSNum(c + 1), Day(req[r]))
      IN /\ Get(req[r].usageResult) = [allowed |-> TRUE, currentCount |-> JSNum(c + 1)]
         /\ Get(req[q].usageResult) = [allowed |-> TRUE, currentCount |-> JSNum(c + 1)]
         /\ req[r].wrote = Some(next) /\ req[q].wrote = Some(next)
         /\ metafield = next

\* two requests both read DAILY_LIMIT - 1, both were allowed and both had a
\* reply generated, and the store holds DAILY_LIMIT
C16_Witness ==
  \E r \in Actions, q \in Actions :
    /\ SameRead(r, q)
    /\ Get(req[r].raw) = Record(JSNum(DAILY_LIMIT - 1), Today0)
    /\ Get(req[r].usageResult).allowed /\ Get(req[q].usageResult).allowed
    /\ req[r].gens = 1 /\ req[q].gens = 1
    /\ metafield = Record(JSNum(DAILY_LIMIT), Today0)


\* the text is a record of day d with an integer count from 1 to DAILY_LIMIT
WrittenInRange(text, d) ==
  /\ WellFormed(text)
  /\ text.v.date = JSDate(d)
  /\ text.v.count.n \in 1..DAILY_LIMIT

\* C18: every record that checkAndIncrementUsage writes has the date of the
\* today of the writing call and a count from 1 to DAILY_LIMIT; and when the
\* store starts with no record or a valid record, the stored count never
\* exceeds DAILY_LIMIT, under every interleaving and every day rollover.
C18_WrittenRecords ==
  /\ \A r \in Actions :
       IsSome(req[r].wrote) => WrittenInRange(Get(req[r].wrote), Day(req[r]))
  /\ hist.clean =>
       \/ metafield = NoMetafield
       \/ WellFormed(metafield) /\ metafield.v.count.n <= DAILY_LIMIT


\* request r is past the subscription gate with a message or tone missing
BadFields(r) ==
  /\ req[r].kind = "action"
  /\ req[r].pc = "a_form"
  /\ req[r].access \in {"granted", "threw"}
  /\ ~req[r].formOk

\* C19: the step of an action that is past the subscription gate with an
\* empty or missing message or tone ends the request with the missing-fields
\* error; the request has made no store read, no store-id lookup, no set
\* call, no write and no generation call, the usage function has not been
\* called, and the stored record is what it was before the step.
C19_BadFieldsNoCounter ==
  [][\A r \in Reqs :
       BadFields(r) /\ req'[r] # req[r] =>
         /\ req'[r].pc = "done"
         /\ req'[r].result = Some(ActionResult("", ErrFields))
         /\ ~req'[r].called
         /\ req'[r].raw = None /\ req'[r].wrote = None /\ req'[r].usageResult = None
         /\ req'[r].reads = 0 /\ req'[r].lookups = 0 /\ req'[r].sets = 0
         /\ req'[r].writes = 0 /\ req'[r].gens = 0
         /\ metafield' = metafield
         /\ hist' = hist]_vars

\* a request with access and a missing field has been rejected while the
\* store holds a record
C19_Witness ==
  \E r \in Actions :
    /\ req[r].pc = "done"
    /\ req[r].access = "granted"
    /\ ~req[r].formOk
    /\ req[r].result = Some(ActionResult("", ErrFields))
    /\ metafield = Record(JSNum(DAILY_LIMIT - 1), Today0)


\* the count the store holds, 0 when there is no record
StoredCount == IF metafield = NoMetafield THEN 0 ELSE metafield.v.count.n

\* the requests that have been charged and wait for generateAIReply
Charged == {r \in Actions : req[r].pc = "a_gen"}

\* generateAIReply of request r has failed
GenerateFailed(r) ==
  req[r].pc = "done" /\ req[r].result = Some(ActionResult("", ErrGenerate))

\* C20: usage is charged before generation and never given back: a request
\* whose generateAIReply failed was allowed, returns the generation error,
\* and the store still holds the count it wrote; so in a sequential run of
\* one day the number of generateAIReply calls is the stored count (less the
\* one request charged and not yet generated) and never exceeds DAILY_LIMIT.
C20_ChargedNotRefunded ==
  /\ \A r \in Actions :
       GenerateFailed(r) =>
         /\ Get(req[r].usageResult).allowed
         /\ IsSome(req[r].wrote)
         /\ metafield = Get(req[r].wrote)
         /\ req[r].writes = 1
  /\ hist.gens + Cardinality(Charged) = StoredCount
  /\ hist.gens <= DAILY_LIMIT

\* the DAILY_LIMIT-th generation has failed and the store holds DAILY_LIMIT
C20_Witness ==
  \E r \in Actions :
    /\ GenerateFailed(r)
    /\ hist.gens = DAILY_LIMIT
    /\ metafield = Record(JSNum(DAILY_LIMIT), Today0)


\* checkActiveSubscription has answered request r with hasAccess = false
NoAccess(r) == IsSome(req[r].sub) /\ ~Get(req[r].sub).hasAccess

\* the loader r has returned
LoaderDone(r) == req[r].kind = "loader" /\ req[r].pc = "done"

\* C21: a loader that was told hasAccess = false and whose createSubscription
\* succeeded returns hasSubscription = false with the confirmation url and
\* usageCount 0 and has not read the usage record; one whose
\* createSubscription failed returns hasSubscription = true with the count
\* getCurrentUsageCount returned, 0 when that read failed; an action that got
\* the same answer from checkActiveSubscription is denied; and no step of a
\* loader, on any path, sets up a write or changes the usage record.
C21_LoaderNoAccess ==
  [][/\ \A p \in Reqs :
          (LoaderDone(p) /\ NoAccess(p))' =>
            /\ req'[p].create \in {"ok", "threw"}
            /\ req'[p].create = "ok" =>
                 /\ Get(req'[p].result).hasSubscription = FALSE
                 /\ Get(req'[p].result).confirmationUrl \notin {None, Some("")}
                 /\ Get(req'[p].result).usageCount = JSNum(0)
                 /\ req'[p].reads = 0 /\ req'[p].raw = None /\ req'[p].peek = None
            /\ req'[p].create = "threw" =>
                 /\ Get(req'[p].result).hasSubscription = TRUE
                 /\ Get(req'[p].result).confirmationUrl = None
                 /\ req'[p].reads = 1
                 /\ Get(req'[p].result).usageCount =
                      IF req'[p].threw = "read" THEN JSNum(0) ELSE Get(req'[p].peek)
            /\ \A a \in Reqs :
                 req'[a].kind = "action" /\ req'[a].sub = req'[p].sub =>
                   /\ req'[a].pc = "done"
                   /\ req'[a].result = Some(ActionResult("", ErrSubscription))
     /\ \A p \in Reqs :
          req[p].kind = "loader" /\ req'[p] # req[p] =>
            /\ metafield' = metafield
            /\ hist'.writes = hist.writes
            /\ req'[p].lookups = 0 /\ req'[p].sets = 0 /\ req'[p].writes = 0
            /\ req'[p].wrote = None /\ req'[p].usage = None]_vars

\* a loader without access whose createSubscription failed has returned
\* hasSubscription = true with the stored count, and an action in the same
\* provider state has been denied
C21_Witness ==
  \E p \in Reqs, a \in Reqs :
    /\ LoaderDone(p) /\ NoAccess(p)
    /\ req[p].create = "threw"
    /\ Get(req[p].result).hasSubscription
    /\ Get(req[p].result).usageCount = JSNum(DAILY_LIMIT - 1)
    /\ req[a].kind = "action" /\ req[a].sub = req[p].sub
    /\ req[a].result = Some(ActionResult("", ErrSubscription))

====
